---- MODULE Spec2Model ----
(***************************************************************************)
(* Pager / AsyncPager of google/genai/pagers.py as a state machine.        *)
(*                                                                         *)
(* One pager object is modelled.  `kind` says whether it is a Pager or an  *)
(* AsyncPager, `ntasks` how many tasks use it: one under Spec (a blocking  *)
(* thread, or one task awaiting each call), two under SpecRace (two        *)
(* cooperative tasks on an AsyncPager, which interleave only at the single *)
(* await of the request function).  The request function and the caller's *)
(* config object are the environment.                                      *)
(*                                                                         *)
(* Encodings                                                               *)
(*   item          <<p, j>>: the j-th item of the page the server numbers p*)
(*   token         NoneTok (None), EmptyTok (''), or p >= 2: the non-empty *)
(*                 token that asks the server for page p                   *)
(*   response      a record; the attribute next_page_token may be missing  *)
(*                 (it is then not in the record's DOMAIN); n is the length*)
(*                 of the collection attribute, NoneCount when it is None  *)
(*   dict          a function from keys to values; a key that is not set is*)
(*                 not in its DOMAIN.  The value of 'nested' is a reference*)
(*                 to a mutable object of `heap`                           *)
(***************************************************************************)
EXTENDS Integers, Sequences, FiniteSets, TLC

VARIABLES
    kind,        \* "sync": Pager, "async": AsyncPager
    ntasks,      \* number of tasks that use the pager
    page,        \* self._page
    idx,         \* self._idx
    config,      \* self._config
    page_size,   \* self._page_size
    callerCfg,   \* the config object the caller passed and still holds
    heap,        \* mutable objects referenced from configs
    frame,       \* per task: the call of next_page/__next__ that is suspended
    last,        \* the step taken last and its result
    pure,        \* from construction on only task 1 pulled items, no failure
    yielded,     \* items returned by the pulls of a pure run
    expected     \* items of the responses applied in a pure run

vars == <<kind, ntasks, page, idx, config, page_size, callerCfg, heap, frame,
          last, pure, yielded, expected>>

\* ---------------------------------------------------------------- bounds
MaxPages == 3
MaxPageLen == 2
MaxIndex == 3

\* ------------------------------------------------------ program constants
NoneCount == -1
NoneTok == -1
EmptyTok == 0
ConfiguredPageSize == 5
OtherPageSize == ConfiguredPageSize + 2
FirstPage == 1

AllTasks == {1, 2}
Tasks == 1..ntasks

\* ------------------------------------------------------------ dict helpers
EmptyDict == [k \in {} |-> 0]

DictGet(d, k, default) == IF k \in DOMAIN d THEN d[k] ELSE default

DictSet(d, k, v) == [x \in (DOMAIN d) \cup {k} |-> IF x = k THEN v ELSE d[x]]

\* the dict as a reader sees it: under `nested` the referenced object's content
Observed(d, hp) ==
    [k \in DOMAIN d |-> IF k = "nested" THEN hp[d[k]] ELSE d[k]]

\* Python truthiness of a token: None and '' are falsy
Truthy(tok) == tok # NoneTok /\ tok # EmptyTok

ListIndexNoNegative(l, i) ==
    IF 0 <= i /\ i < Len(l) THEN [raised |-> "none", item |-> l[i + 1]]
    ELSE [raised |-> "IndexError", item |-> <<0, 0>>]

\* list[index] of Python: negative indices count from the end
ListIndex(l, i) ==
    IF 0 <= i /\ i < Len(l) THEN [raised |-> "none", item |-> l[i + 1]]
    ELSE IF -Len(l) <= i /\ i < 0
         THEN [raised |-> "none", item |-> l[Len(l) + i + 1]]
         ELSE [raised |-> "IndexError", item |-> <<0, 0>>]

\* getattr(response, self._name) or []
ItemsOrEmpty(response) ==
    IF response.n = NoneCount \/ response.n = 0 THEN <<>>
    ELSE [j \in 1..response.n |-> <<response.pageNo, j>>]

\* copy.deepcopy(d): every referenced mutable object is copied
DeepCopy(d, hp) ==
    [cfg  |-> [k \in DOMAIN d |-> IF k = "nested" THEN "own" ELSE d[k]],
     heap |-> IF "nested" \in DOMAIN d
              THEN [hp EXCEPT !.own = hp[d.nested]] ELSE hp]

\* dict(config): a new dict holding the same values (references are shared)
ShallowDict(d, hp) == [cfg |-> d, heap |-> hp]

\* the config normalisation of __init__
NormalizeConfig(cc, hp) ==
    IF cc.shape = "absent" THEN [cfg |-> EmptyDict, heap |-> hp]
    ELSE IF cc.shape = "dict" THEN DeepCopy(cc.dict, hp)
    ELSE ShallowDict(cc.dict, hp)

BasePagerInitMergesPage(self, response, cc, hp) ==
    LET pg == self.page \o ItemsOrEmpty(response)
        norm == NormalizeConfig(cc, hp)
    IN  IF "next_page_token" \notin DOMAIN response
        THEN [page |-> pg, idx |-> 0, config |-> self.config,
              page_size |-> self.page_size, heap |-> hp,
              raised |-> "AttributeError"]
        ELSE LET rc == DictSet(norm.cfg, "page_token", response.next_page_token)
             IN  [page |-> pg, idx |-> 0, config |-> rc,
                  page_size |-> DictGet(rc, "page_size", Len(pg)),
                  heap |-> norm.heap, raised |-> "none"]

BasePagerInitSizeFromPage(self, response, cc, hp) ==
    LET pg == ItemsOrEmpty(response)
        norm == NormalizeConfig(cc, hp)
    IN  IF "next_page_token" \notin DOMAIN response
        THEN [page |-> pg, idx |-> 0, config |-> self.config,
              page_size |-> self.page_size, heap |-> hp,
              raised |-> "AttributeError"]
        ELSE LET rc == DictSet(norm.cfg, "page_token", response.next_page_token)
             IN  [page |-> pg, idx |-> 0, config |-> rc,
                  page_size |-> Len(pg),
                  heap |-> norm.heap, raised |-> "none"]

BasePagerInitKeepsCursor(self, response, cc, hp) ==
    LET pg == ItemsOrEmpty(response)
        norm == NormalizeConfig(cc, hp)
    IN  IF "next_page_token" \notin DOMAIN response
        THEN [page |-> pg, idx |-> self.idx, config |-> self.config,
              page_size |-> self.page_size, heap |-> hp,
              raised |-> "AttributeError"]
        ELSE LET rc == DictSet(norm.cfg, "page_token", response.next_page_token)
             IN  [page |-> pg, idx |-> self.idx, config |-> rc,
                  page_size |-> DictGet(rc, "page_size", Len(pg)),
                  heap |-> norm.heap, raised |-> "none"]

\* _BasePager.__init__ run on `self`: the fields after it returned or raised
\* (a response without next_page_token raises AttributeError at the line that
\* reads it, after _page and _idx were assigned)
BasePagerInit(self, response, cc, hp) ==
    LET pg == ItemsOrEmpty(response)
        norm == NormalizeConfig(cc, hp)
    IN  IF "next_page_token" \notin DOMAIN response
        THEN [page |-> pg, idx |-> 0, config |-> self.config,
              page_size |-> self.page_size, heap |-> hp,
              raised |-> "AttributeError"]
        ELSE LET rc == DictSet(norm.cfg, "page_token", response.next_page_token)
             IN  [page |-> pg, idx |-> 0, config |-> rc,
                  page_size |-> DictGet(rc, "page_size", Len(pg)),
                  heap |-> norm.heap, raised |-> "none"]

\* _init_next_page: __init__ again, with the pager's own config as config
InitNextPage(self, response, hp) ==
    BasePagerInit(self, response, [shape |-> "dict", dict |-> self.config], hp)

ExhaustedOnlyNone(cfg) == DictGet(cfg, "page_token", NoneTok) = NoneTok

\* the guard of next_page: `not self.config.get('page_token')`
Exhausted(cfg) == ~Truthy(DictGet(cfg, "page_token", NoneTok))

\* ------------------------------------------------------------ environment
\* what the request function may return for the token `tok`
Responses(tok) ==
    LET toks == {NoneTok, EmptyTok} \cup (IF tok < MaxPages THEN {tok + 1} ELSE {})
    IN  {[pageNo |-> tok, n |-> c, next_page_token |-> nt] :
            c \in NoneCount..MaxPageLen, nt \in toks}
        \cup {[pageNo |-> tok, n |-> c] : c \in NoneCount..MaxPageLen}

\* what the request function may raise
RequestErrors == {"IndexError", "TransportError"}

InitialResponses ==
    {r \in Responses(FirstPage) : "next_page_token" \in DOMAIN r}

CallerConfigs ==
    {[shape |-> "absent", dict |-> EmptyDict]}
    \cup {[shape |-> s, dict |-> d] :
            s \in {"dict", "object"},
            d \in {[nested |-> "caller"],
                   [nested |-> "caller", page_size |-> ConfiguredPageSize],
                   [nested |-> "caller", page_token |-> FirstPage],
                   [nested |-> "caller", page_size |-> ConfiguredPageSize,
                    page_token |-> FirstPage]}}

\* the configs the two-task runs are made with
RaceConfigs ==
    {c \in CallerConfigs : c.shape = "object" /\ DOMAIN c.dict = {"nested"}}

\* ------------------------------------------------------------- bookkeeping
Self == [page |-> page, idx |-> idx, config |-> config,
         page_size |-> page_size, own |-> heap.own]

NoItem == <<0, 0>>
NoResponse == [pageNo |-> 0, n |-> 0]
NoSelf == [page |-> <<>>, idx |-> 0, config |-> EmptyDict,
           page_size |-> 0, own |-> 0]
IdleFrame == [pc |-> "idle", op |-> "none", sent |-> EmptyTok,
              pre |-> NoSelf, overlap |-> FALSE, arrived |-> FALSE]

\* a step record; every action fills in what it did.  step is "call" when the
\* step begins an operation, "resume" when it ends one that awaited the
\* request function; result is "pending" while the operation awaits; idx0,
\* len0 and first0 are the cursor, the page length and the first item of the
\* page of before the step
Event(op, step) ==
    [op |-> op, step |-> step, result |-> "none", origin |-> "none",
     item |-> NoItem, ret |-> <<>>, pre |-> NoSelf, overlap |-> FALSE,
     issued |-> 0, sent |-> EmptyTok, resp |-> NoResponse,
     reqErr |-> "none", index |-> 0, idx0 |-> idx, len0 |-> Len(page),
     first0 |-> IF page = <<>> THEN NoItem ELSE page[1]]

\* a step overlaps the suspended calls of the tasks other than t (t = 0: all)
Overlapped(t, f) ==
    [u \in AllTasks |->
        IF u # t /\ f[u].pc = "await"
        THEN [f[u] EXCEPT !.overlap = TRUE, !.pre = NoSelf]
        ELSE f[u]]

\* a response arrived while the calls of the tasks other than t were suspended
Arrived(t, f) ==
    [u \in AllTasks |->
        IF u # t /\ f[u].pc = "await" THEN [f[u] EXCEPT !.arrived = TRUE]
        ELSE f[u]]

CanRun(t) == t \in Tasks /\ frame[t].pc = "idle"

SomeoneRuns == \E t \in Tasks : CanRun(t)

Impure == pure' = FALSE /\ yielded' = <<>> /\ expected' = <<>>

StaysPure(t) == pure /\ t = 1

\* ------------------------------------------------------------------- Init
Constructed ==
    /\ callerCfg \in CallerConfigs
    /\ \E r \in InitialResponses :
          LET hp0 == [caller |-> 0, own |-> 0]
              s == BasePagerInit(NoSelf, r, callerCfg, hp0)
          IN  /\ page = s.page
              /\ idx = s.idx
              /\ config = s.config
              /\ page_size = s.page_size
              /\ heap = s.heap
              /\ expected = s.page
              /\ last = [Event("init", "call") EXCEPT
                           !.resp = r, !.result = "return", !.idx0 = 0,
                           !.len0 = 0, !.first0 = NoItem]
    /\ frame = [t \in AllTasks |-> IdleFrame]
    /\ pure = TRUE
    /\ yielded = <<>>

Init ==
    /\ kind \in {"sync", "async"}
    /\ ntasks = 1
    /\ Constructed

InitRace ==
    /\ kind = "async"
    /\ ntasks = 2
    /\ Constructed
    /\ callerCfg \in RaceConfigs

\* ---------------------------------------------------------------- actions
IterKeepsCursor ==
    /\ SomeoneRuns
    /\ last' = [Event("iter", "call") EXCEPT !.result = "return"]
    /\ frame' = Overlapped(0, frame)
    /\ Impure
    /\ UNCHANGED <<kind, ntasks, page, idx, config, page_size, callerCfg, heap>>

\* __iter__ / __aiter__: the cursor goes back to 0, the pager is returned
Iter ==
    /\ SomeoneRuns
    /\ idx' = 0
    /\ last' = [Event("iter", "call") EXCEPT !.result = "return"]
    /\ frame' = Overlapped(0, frame)
    /\ Impure
    /\ UNCHANGED <<kind, ntasks, page, config, page_size, callerCfg, heap>>

\* __getitem__(index)
GetItem(index) ==
    /\ SomeoneRuns
    /\ LET r == ListIndex(page, index)
       IN  last' = [Event("getitem", "call") EXCEPT
                      !.index = index,
                      !.result = IF r.raised = "none" THEN "return" ELSE r.raised,
                      !.origin = IF r.raised = "none" THEN "none" ELSE "page",
                      !.item = r.item]
    /\ frame' = Overlapped(0, frame)
    /\ Impure
    /\ UNCHANGED <<kind, ntasks, page, idx, config, page_size, callerCfg, heap>>

\* next_page() with no token: raises IndexError('No more pages to fetch.')
NextPageExhausted(t) ==
    /\ CanRun(t)
    /\ Exhausted(config)
    /\ last' = [Event("next_page", "call") EXCEPT
                  !.result = "IndexError", !.origin = "pager"]
    /\ frame' = Overlapped(t, frame)
    /\ Impure
    /\ UNCHANGED <<kind, ntasks, page, idx, config, page_size, callerCfg, heap>>

\* next_page() with a token: the request function is called with self.config
NextPageRequest(t) ==
    /\ CanRun(t)
    /\ ~Exhausted(config)
    /\ frame' = [Overlapped(t, frame) EXCEPT
                   ![t] = [pc |-> "await", op |-> "next_page",
                           sent |-> config.page_token, pre |-> Self,
                           overlap |-> FALSE, arrived |-> FALSE]]
    /\ last' = [Event("next_page", "call") EXCEPT
                  !.result = "pending", !.issued = 1,
                  !.sent = config.page_token]
    /\ Impure
    /\ UNCHANGED <<kind, ntasks, page, idx, config, page_size, callerCfg, heap>>

NextItemKeepsCursor(t) ==
    /\ CanRun(t)
    /\ idx < Len(page)
    /\ LET r == ListIndex(page, idx)
       IN  /\ last' = [Event("pull", "call") EXCEPT
                         !.result = "return", !.item = r.item]
           /\ IF StaysPure(t)
              THEN /\ pure' = TRUE
                   /\ yielded' = Append(yielded, r.item)
                   /\ expected' = expected
              ELSE Impure
    /\ frame' = Overlapped(t, frame)
    /\ UNCHANGED <<kind, ntasks, page, idx, config, page_size, callerCfg, heap>>

\* __next__ / __anext__ inside the page
NextItem(t) ==
    /\ CanRun(t)
    /\ idx < Len(page)
    /\ LET r == ListIndex(page, idx)
       IN  /\ last' = [Event("pull", "call") EXCEPT
                         !.result = "return", !.item = r.item]
           /\ IF StaysPure(t)
              THEN /\ pure' = TRUE
                   /\ yielded' = Append(yielded, r.item)
                   /\ expected' = expected
              ELSE Impure
    /\ idx' = idx + 1
    /\ frame' = Overlapped(t, frame)
    /\ UNCHANGED <<kind, ntasks, page, config, page_size, callerCfg, heap>>

NextExhaustedRewinds(t) ==
    /\ CanRun(t)
    /\ idx >= Len(page)
    /\ Exhausted(config)
    /\ idx' = 0
    /\ last' = [Event("pull", "call") EXCEPT
                  !.result = "StopIteration", !.origin = "pager"]
    /\ frame' = Overlapped(t, frame)
    /\ IF StaysPure(t)
       THEN UNCHANGED <<pure, yielded, expected>>
       ELSE Impure
    /\ UNCHANGED <<kind, ntasks, page, config, page_size, callerCfg, heap>>

\* __next__ / __anext__ at the end of the page, no token: next_page raises
\* IndexError, which becomes StopIteration / StopAsyncIteration
NextExhausted(t) ==
    /\ CanRun(t)
    /\ idx >= Len(page)
    /\ Exhausted(config)
    /\ last' = [Event("pull", "call") EXCEPT
                  !.result = "StopIteration", !.origin = "pager"]
    /\ frame' = Overlapped(t, frame)
    /\ IF StaysPure(t)
       THEN UNCHANGED <<pure, yielded, expected>>
       ELSE Impure
    /\ UNCHANGED <<kind, ntasks, page, idx, config, page_size, callerCfg, heap>>

\* __next__ / __anext__ at the end of the page, with a token: next_page calls
\* the request function
NextRequest(t) ==
    /\ CanRun(t)
    /\ idx >= Len(page)
    /\ ~Exhausted(config)
    /\ frame' = [Overlapped(t, frame) EXCEPT
                   ![t] = [pc |-> "await", op |-> "pull",
                           sent |-> config.page_token, pre |-> Self,
                           overlap |-> FALSE, arrived |-> FALSE]]
    /\ last' = [Event("pull", "call") EXCEPT
                  !.result = "pending", !.issued = 1,
                  !.sent = config.page_token]
    /\ IF StaysPure(t)
       THEN UNCHANGED <<pure, yielded, expected>>
       ELSE Impure
    /\ UNCHANGED <<kind, ntasks, page, idx, config, page_size, callerCfg, heap>>

\* the request function returns `response`: _init_next_page(response), then
\* next_page returns self.page; a pull goes on with self.page[self._idx]
RequestReturns(t, response) ==
    /\ t \in Tasks
    /\ frame[t].pc = "await"
    /\ response \in Responses(frame[t].sent)
    /\ LET s == InitNextPage(Self, response, heap)
           r == ListIndex(s.page, s.idx)
           ev == [Event(frame[t].op, "resume") EXCEPT
                    !.overlap = frame[t].overlap, !.issued = 1,
                    !.sent = frame[t].sent, !.resp = response]
           gotItem == frame[t].op = "pull" /\ s.raised = "none"
                      /\ r.raised = "none"
       IN  /\ page' = s.page
           /\ config' = s.config
           /\ page_size' = s.page_size
           /\ heap' = s.heap
           /\ idx' = IF gotItem THEN s.idx + 1 ELSE s.idx
           /\ last' =
                IF s.raised # "none"
                THEN [ev EXCEPT !.result = s.raised, !.origin = "response"]
                ELSE IF frame[t].op = "next_page"
                THEN [ev EXCEPT !.result = "return", !.ret = s.page]
                ELSE IF r.raised = "none"
                THEN [ev EXCEPT !.result = "return", !.item = r.item]
                ELSE [ev EXCEPT !.result = r.raised, !.origin = "page"]
           /\ IF StaysPure(t) /\ frame[t].op = "pull" /\ s.raised = "none"
              THEN /\ pure' = TRUE
                   /\ expected' = expected \o s.page
                   /\ yielded' = IF gotItem THEN Append(yielded, r.item)
                                 ELSE yielded
              ELSE Impure
    /\ frame' = [Arrived(t, Overlapped(t, frame)) EXCEPT ![t] = IdleFrame]
    /\ UNCHANGED <<kind, ntasks, callerCfg>>

RequestRaisesDropsToken(t, err) ==
    /\ t \in Tasks
    /\ frame[t].pc = "await"
    /\ err \in RequestErrors
    /\ config' = DictSet(config, "page_token", NoneTok)
    /\ last' = [Event(frame[t].op, "resume") EXCEPT
                  !.overlap = frame[t].overlap, !.issued = 1,
                  !.sent = frame[t].sent, !.reqErr = err,
                  !.pre = frame[t].pre, !.origin = "request",
                  !.result = IF frame[t].op = "pull" /\ err = "IndexError"
                             THEN "StopIteration" ELSE err]
    /\ frame' = [Overlapped(t, frame) EXCEPT ![t] = IdleFrame]
    /\ Impure
    /\ UNCHANGED <<kind, ntasks, page, idx, page_size, callerCfg, heap>>

\* the request function raises `err`: next_page lets it through; a pull
\* catches IndexError and raises StopIteration / StopAsyncIteration instead
RequestRaises(t, err) ==
    /\ t \in Tasks
    /\ frame[t].pc = "await"
    /\ err \in RequestErrors
    /\ last' = [Event(frame[t].op, "resume") EXCEPT
                  !.overlap = frame[t].overlap, !.issued = 1,
                  !.sent = frame[t].sent, !.reqErr = err,
                  !.pre = frame[t].pre, !.origin = "request",
                  !.result = IF frame[t].op = "pull" /\ err = "IndexError"
                             THEN "StopIteration" ELSE err]
    /\ frame' = [Overlapped(t, frame) EXCEPT ![t] = IdleFrame]
    /\ Impure
    /\ UNCHANGED <<kind, ntasks, page, idx, config, page_size, callerCfg, heap>>

\* the caller sets a top-level option of the config object it passed
CallerSetsOption ==
    /\ SomeoneRuns
    /\ callerCfg.shape # "absent"
    /\ callerCfg' = [callerCfg EXCEPT
                       !.dict = DictSet(@, "page_size", OtherPageSize)]
    /\ last' = Event("mutate", "call")
    /\ frame' = Overlapped(0, frame)
    /\ Impure
    /\ UNCHANGED <<kind, ntasks, page, idx, config, page_size, heap>>

\* the caller mutates the object its config holds under `nested`
CallerMutatesNested ==
    /\ SomeoneRuns
    /\ "nested" \in DOMAIN callerCfg.dict
    /\ heap' = [heap EXCEPT !.caller = 1]
    /\ last' = Event("mutate", "call")
    /\ frame' = Overlapped(0, frame)
    /\ Impure
    /\ UNCHANGED <<kind, ntasks, page, idx, config, page_size, callerCfg>>

Next ==
    \/ Iter
    \/ \E i \in (-MaxIndex)..MaxIndex : GetItem(i)
    \/ \E t \in AllTasks : NextPageExhausted(t)
    \/ \E t \in AllTasks : NextPageRequest(t)
    \/ \E t \in AllTasks : NextItem(t)
    \/ \E t \in AllTasks : NextExhausted(t)
    \/ \E t \in AllTasks : NextRequest(t)
    \/ \E t \in AllTasks, p \in FirstPage..MaxPages :
          \E r \in Responses(p) : RequestReturns(t, r)
    \/ \E t \in AllTasks, e \in RequestErrors : RequestRaises(t, e)
    \/ CallerSetsOption
    \/ CallerMutatesNested

Spec == Init /\ [][Next]_vars

\* two tasks on one AsyncPager: the operations of the pager, without the
\* caller's changes to its own config object
NextRace ==
    \/ Iter
    \/ \E i \in (-MaxIndex)..MaxIndex : GetItem(i)
    \/ \E t \in AllTasks : NextPageExhausted(t)
    \/ \E t \in AllTasks : NextPageRequest(t)
    \/ \E t \in AllTasks : NextItem(t)
    \/ \E t \in AllTasks : NextExhausted(t)
    \/ \E t \in AllTasks : NextRequest(t)
    \/ \E t \in AllTasks :
          \E r \in Responses(frame[t].sent) : RequestReturns(t, r)
    \/ \E t \in AllTasks, e \in RequestErrors : RequestRaises(t, e)

SpecRace == InitRace /\ [][NextRace]_vars

\* ----------------------------------------------------------------- claims
IsPrefix(a, b) == Len(a) <= Len(b) /\ SubSeq(b, 1, Len(a)) = a

Count(response) == IF response.n = NoneCount THEN 0 ELSE response.n

\* C1: a run that, from construction on, only pulls items (no failure of the
\* request function, every response carrying its token) never ends a pull with
\* an error, yields the items of the responses received so far in their order,
\* and when a pull signals end-of-sequence has yielded all of them.
C1_FullIteration ==
    pure =>
        /\ last.result \in {"return", "pending", "StopIteration"}
        /\ IsPrefix(yielded, expected)
        /\ (last.result = "StopIteration" => yielded = expected)

\* C2: a next_page() call made while page_token is None or '' raises the
\* pager's IndexError, calls the request function zero times and changes
\* neither page, config, page size nor cursor.
C2_ExhaustedNextPage ==
    [][(/\ last'.op = "next_page"
        /\ last'.step = "call"
        /\ ~Truthy(DictGet(config, "page_token", NoneTok)))
       => /\ last'.result = "IndexError"
          /\ last'.origin = "pager"
          /\ last'.issued = 0
          /\ \A t \in AllTasks : frame'[t].pc = frame[t].pc
          /\ page' = page /\ config' = config /\ heap' = heap
          /\ page_size' = page_size /\ idx' = idx]_vars

C2_Witness ==
    /\ last.op = "next_page"
    /\ last.step = "call"
    /\ last.result = "IndexError"
    /\ config.page_token = EmptyTok
    /\ page # <<>>

\* C3: when next_page() returns, page_token is the token of the response just
\* received, page is exactly that response's item list (empty when the
\* attribute is None), and the call returned that page.
C3_NextPageReplaces ==
    (last.op = "next_page" /\ last.step = "resume" /\ last.result = "return")
    => /\ "next_page_token" \in DOMAIN last.resp
       /\ config.page_token = last.resp.next_page_token
       /\ Len(page) = Count(last.resp)
       /\ \A j \in 1..Len(page) : page[j] = <<last.resp.pageNo, j>>
       /\ last.ret = page

C3_Witness ==
    /\ last.op = "next_page"
    /\ last.step = "resume"
    /\ last.result = "return"
    /\ Len(page) = 1
    /\ page[1][1] > FirstPage + 1
    /\ config.page_token = EmptyTok

\* C4: when the request function raises, in next_page() or in a pull at the
\* end of the page, and no other task ran during the call, then page, config,
\* page size and cursor are those of before the call, and page_token is still
\* the non-empty token the failed request carried.
C4_FailedFetchKeepsState ==
    (last.reqErr # "none" /\ ~last.overlap)
    => /\ Self = last.pre
       /\ Truthy(config.page_token)
       /\ config.page_token = last.sent

C4_Witness ==
    /\ last.reqErr = "TransportError"
    /\ last.op = "pull"
    /\ last.result = "TransportError"
    /\ idx = Len(page)
    /\ idx > 0

\* C5: an error the request function raises is the error the caller of
\* next_page() or of the pull gets, whatever its kind.
C5_RequestErrorPropagates ==
    last.reqErr # "none" => last.result = last.reqErr

\* C6: a mutation the caller makes to the config it passed, at top level or
\* inside a nested mutable value, leaves the pager's config as read (and so as
\* sent in later requests) unchanged.
C6_ConfigIndependent ==
    [][last'.op = "mutate"
       => Observed(config', heap') = Observed(config, heap)]_vars

\* C7 as claimed: every index outside [0, len(page)), negative ones included,
\* raises IndexError; an index inside returns page[index]; nothing changes.
C7_NegativeIndexRaises ==
    [][last'.op = "getitem"
       => /\ page' = page /\ config' = config /\ heap' = heap
          /\ page_size' = page_size /\ idx' = idx
          /\ IF 0 <= last'.index /\ last'.index < Len(page)
             THEN /\ last'.result = "return"
                  /\ last'.item = page[last'.index + 1]
             ELSE last'.result = "IndexError"]_vars

\* C7 amended: an index outside [-len(page), len(page)) raises IndexError; an
\* index in [0, len(page)) returns page[index]; an index in [-len(page), 0)
\* returns page[len(page) + index]; the pager state is unchanged in every case.
C7_IndexLikeList ==
    [][last'.op = "getitem"
       => /\ page' = page /\ config' = config /\ heap' = heap
          /\ page_size' = page_size /\ idx' = idx
          /\ IF 0 <= last'.index /\ last'.index < Len(page)
             THEN /\ last'.result = "return"
                  /\ last'.item = page[last'.index + 1]
             ELSE IF -Len(page) <= last'.index /\ last'.index < 0
             THEN /\ last'.result = "return"
                  /\ last'.item = page[Len(page) + last'.index + 1]
             ELSE last'.result = "IndexError"]_vars

C7_Witness ==
    /\ last.op = "getitem"
    /\ last.index = -1
    /\ Len(page) = 2
    /\ last.result = "return"
    /\ last.item = page[2]

\* C8: __iter__ / __aiter__ sets the cursor to 0, leaves page, config and page
\* size as they are and returns the pager; a pull that follows it on a page
\* with items returns the first item of that page.
C8_RestartReplaysCurrentPage ==
    [][/\ (last'.op = "iter"
           => /\ idx' = 0
              /\ last'.result = "return"
              /\ page' = page /\ config' = config /\ heap' = heap
              /\ page_size' = page_size)
       /\ (/\ last.op = "iter" /\ page # <<>>
           /\ last'.op = "pull" /\ last'.step = "call"
           => /\ last'.issued = 0
              /\ last'.result = "return"
              /\ last'.item = page[1]
              /\ page' = page)]_vars

C8_Witness ==
    /\ last.op = "iter"
    /\ last.idx0 = 2
    /\ Len(page) = 2
    /\ page[1][1] > FirstPage

\* C9: when a pull signals end-of-sequence, page_token is None or ''.
C9_StopMeansNoToken ==
    (last.op = "pull" /\ last.result = "StopIteration") => Exhausted(config)

\* C10: right after construction len(page) is the number of items of the
\* initial response (0 when the attribute is None), page_size is the config's
\* page_size when it has one and that number otherwise, and the cursor is 0.
C10_Construction ==
    last.op = "init"
    => /\ Len(page) = Count(last.resp)
       /\ page_size = IF "page_size" \in DOMAIN callerCfg.dict
                      THEN callerCfg.dict.page_size
                      ELSE Count(last.resp)
       /\ idx = 0

C10_Witness ==
    /\ last.op = "init"
    /\ "page_size" \in DOMAIN callerCfg.dict
    /\ page_size = ConfiguredPageSize
    /\ Len(page) = 2

\* the options of a dict other than the page token
NonToken(d) == [k \in (DOMAIN d) \ {"page_token"} |-> d[k]]

\* the item list a response carries
Items(response) == [j \in 1..Count(response) |-> <<response.pageNo, j>>]

Range(l) == {l[j] : j \in 1..Len(l)}

\* C11: a pull whose fetch succeeded goes on by the same rule with the page
\* just loaded: it returns the first item of a page with items, fetches again
\* (is pending) on an empty page that has a token, and signals end-of-sequence
\* on an empty page without a token; it never raises an error.
C11_PullRetriesOnNewPage ==
    (/\ last.op = "pull"
     /\ last.step = "resume"
     /\ "next_page_token" \in DOMAIN last.resp)
    => IF page # <<>>
       THEN last.result = "return" /\ last.item = page[1]
       ELSE IF Truthy(config.page_token)
       THEN last.result = "pending"
       ELSE last.result = "StopIteration"

\* C12: page_token is the token of the response applied last (the initial one
\* or the last one fetched with success), whatever page_token the caller's
\* config held; every request carries that token; and the other options of
\* the config, as they were at construction, are the same in every state.
C12_TokenAndOptionsThreaded ==
    [][/\ (last.op = "init"
           => /\ config.page_token = last.resp.next_page_token
              /\ NonToken(Observed(config, heap))
                   = NonToken(Observed(callerCfg.dict, heap)))
       /\ IF last'.step = "resume" /\ "next_page_token" \in DOMAIN last'.resp
          THEN config'.page_token = last'.resp.next_page_token
          ELSE config'.page_token = config.page_token
       /\ (last'.result = "pending"
           => last'.issued = 1 /\ last'.sent = config.page_token)
       /\ NonToken(Observed(config', heap'))
            = NonToken(Observed(config, heap))]_vars

\* C13: in every state page and page_token come from the same response: the
\* response that carries the items of page p carries the token of page p + 1
\* (or no token), so a page with items and a non-empty token are one apart.
C13_PageAndTokenTogether ==
    (page # <<>> /\ Truthy(config.page_token))
    => config.page_token = page[1][1] + 1

\* C14: the cursor is within [0, len(page)] in every state, two tasks using
\* one AsyncPager included.
C14_CursorInRange == 0 <= idx /\ idx <= Len(page)

C14_Witness ==
    /\ ntasks = 2
    /\ last.op = "pull"
    /\ last.step = "resume"
    /\ last.overlap
    /\ last.result = "return"
    /\ last.idx0 = 2
    /\ Len(page) = 1
    /\ idx = 1

\* C15: a pull made with cursor < len(page) returns page[cursor], moves the
\* cursor by one, issues no request (it does not suspend) and leaves page,
\* config and page size unchanged; a pull issues a request only with the
\* cursor at the end of the page and a non-empty token.
C15_PullInsidePage ==
    [][(last'.op = "pull" /\ last'.step = "call")
       => /\ (idx < Len(page)
              => /\ last'.result = "return"
                 /\ last'.item = page[idx + 1]
                 /\ idx' = idx + 1
                 /\ last'.issued = 0
                 /\ \A t \in AllTasks : frame'[t].pc = frame[t].pc
                 /\ page' = page /\ config' = config /\ heap' = heap
                 /\ page_size' = page_size)
          /\ (last'.issued = 1 \/ (\E t \in AllTasks : frame'[t].pc # frame[t].pc)
              => /\ idx >= Len(page)
                 /\ Truthy(DictGet(config, "page_token", NoneTok)))]_vars

C15_Witness ==
    /\ kind = "async"
    /\ last.op = "pull"
    /\ last.step = "call"
    /\ last.result = "return"
    /\ last.idx0 = 0
    /\ idx = 1
    /\ Len(page) = 2
    /\ Truthy(config.page_token)

\* C16: a pull made with the cursor at the end of the page and no token
\* signals end-of-sequence, issues no request and changes nothing (so the same
\* holds of the pull after it).
C16_EndIsTerminal ==
    [][(/\ last'.op = "pull"
        /\ last'.step = "call"
        /\ idx >= Len(page)
        /\ ~Truthy(DictGet(config, "page_token", NoneTok)))
       => /\ last'.result = "StopIteration"
          /\ last'.issued = 0
          /\ \A t \in AllTasks : frame'[t].pc = frame[t].pc
          /\ page' = page /\ config' = config /\ heap' = heap
          /\ page_size' = page_size /\ idx' = idx]_vars

C16_Witness ==
    /\ last.op = "pull"
    /\ last.result = "StopIteration"
    /\ last.origin = "pager"
    /\ idx = Len(page)
    /\ Len(page) = 2
    /\ page[1][1] > FirstPage

\* C17: a page load that succeeds leaves the cursor at 0 (at 1 when the load
\* was made by a pull, which then returns the first item), wherever the cursor
\* was in the old page; the page then holds the items of the response only, a
\* pull returns nothing but an item of the page loaded last, and the pull that
\* follows an explicit next_page() returns the first item of the new page.
C17_LoadResetsCursor ==
    [][/\ (/\ last'.step = "resume"
           /\ last'.op = "next_page"
           /\ last'.result = "return"
           => idx' = 0 /\ page' = Items(last'.resp))
       /\ (/\ last'.step = "resume"
           /\ last'.op = "pull"
           /\ last'.result = "return"
           => /\ idx' = 1
              /\ page' = Items(last'.resp)
              /\ last'.item = page'[1])
       /\ (last'.op = "pull" /\ last'.result = "return"
           => last'.item \in Range(page'))
       /\ (/\ last.step = "resume"
           /\ last.op = "next_page"
           /\ last.result = "return"
           /\ page # <<>>
           /\ last'.op = "pull"
           /\ last'.step = "call"
           => last'.result = "return" /\ last'.item = page[1])]_vars

C17_Witness ==
    /\ last.op = "next_page"
    /\ last.step = "resume"
    /\ last.result = "return"
    /\ last.idx0 = 1
    /\ last.len0 = 2
    /\ Len(page) = 2
    /\ idx = 0

\* C18: in every state page_size is the config's page_size when the config has
\* that option, and len(page) of the current page otherwise.
C18_PageSizeFollowsPage ==
    page_size = DictGet(config, "page_size", Len(page))

\* C19: a request issued while another task's call awaits its response (none
\* having arrived since that call began) carries the same token as that call;
\* and the response of a call during which other operations ran is applied in
\* full when it arrives: page and token are the response's and the cursor is 0
\* (1 when the resumed call is a pull, which returns the first item).
C19_RacingCalls ==
    [][/\ (last'.step = "call" /\ last'.result = "pending"
           => \A u \in AllTasks :
                 (frame[u].pc = "await" /\ ~frame[u].arrived)
                 => frame[u].sent = last'.sent)
       /\ (last'.step = "resume" /\ last'.overlap /\ last'.reqErr = "none"
           => /\ page' = Items(last'.resp)
              /\ "next_page_token" \in DOMAIN last'.resp
              /\ config'.page_token = last'.resp.next_page_token
              /\ idx' = IF last'.op = "pull" /\ last'.result = "return"
                        THEN 1 ELSE 0)]_vars
====
